---- MODULE Spec2Model ----
(***************************************************************************)
(* SumoSound: a spatial-audio scene mirroring a SUMO traffic simulation.   *)
(*                                                                         *)
(* Two specifications share the audio backend's source pool:               *)
(*   SpecSound  one VehicleSound (Sounds.py) driven through its public     *)
(*              methods while other sounds take and return pool sources;   *)
(*   Spec       a Simulation (Simulation.py) stepped by update() against   *)
(*              an arbitrary telemetry feed.                               *)
(* Four more cover what happens before a Simulation runs:                  *)
(*   SpecCurve   Vehicle._calculate_response_from_curve on a curve and x;  *)
(*   SpecBuffers VehicleSound constructions filling the buffer cache;      *)
(*   SpecEgo     Ego constructions and the calls on the one Ego;           *)
(*   SpecVehicle a Vehicle configured by add_sound and then driven.        *)
(*                                                                         *)
(* Python's None is the empty sequence and a present value x is <<x>>.     *)
(* Positions and velocities are integer 3-vectors.  Gains are fixed-point:  *)
(* base gains, set_gain arguments, signal values and curve points count    *)
(* halves, their products and the backend's gains count quarters.          *)
(***************************************************************************)
EXTENDS Integers, Sequences, FiniteSets, TLC

\* ---------------------------------------------------------------- bounds
\* largest x coordinate of a position or velocity vector
MaxCoord == 1
\* largest gain argument passed to set_gain
MaxGain == 2
\* largest number of sources the audio backend can hold at once
MaxPool == 2
\* number of vehicle identities the telemetry feed can report
NumVeh == 4
\* the max_vehicle_count a user passes to Simulation() when passing one
MaxCount == 1
\* largest number of control points of a response curve
MaxPts == 3
\* largest input of a response curve's control point
MaxX == 4
\* largest number of VehicleSounds constructed against the buffer cache
MaxSounds == 4
\* largest number of add_sound calls on one Vehicle
MaxTriples == 2
\* largest number of Ego constructions attempted
MaxEgos == 3

VARIABLES
    \* ---- audio backend (OpenAL), shared by both specifications
    al_sources,         \* number of live backend sources (generated, not destroyed)
    al_limit,           \* the backend's concurrent-source limit
    \* ---- SpecSound: one VehicleSound
    snd,                \* the VehicleSound object
    others,             \* sources held by the other VehicleSounds of the process
    last_error,         \* what the last call on snd raised: "none" or "ALError"
    req_gain,           \* argument of the last set_gain call on snd (None before any)
    rt,                 \* "none" | "disabled" | "restored": disable()/enable() round trip
    pre,                \* snd's observable state right before the round trip's disable()
    \* ---- Spec: the Simulation
    ego_vehID,          \* self.ego.vehID of an EgoVehicle; None for a plain Ego
    ego_position,       \* self.ego.position
    silent_ego,         \* self.silent_ego
    vehicles,           \* self.vehicles, a dict: the Vehicles in insertion order
    max_vehicle_count,  \* self.max_vehicle_count (None or an integer)
    raised,             \* what the last update() raised to its caller
    step,               \* what the last update() read and did (see NoStep)
    \* ---- SpecCurve: one evaluation of a response curve
    rc_curve,           \* the curve: a sequence of <<input, output>> points
    rc_x,               \* the signal value
    rc_y,               \* None, then Some(what the evaluation returned)
    \* ---- SpecBuffers: the buffer cache
    buffers,            \* Sounds._buffers: file -> None or Some(buffer id)
    loads,              \* file -> how often Buffer(WaveFile(file)) was loaded
    made,               \* the VehicleSounds constructed: [file, buffer_id]
    \* ---- SpecEgo: the listener
    ego_declared,       \* Ego._ego_declared
    egos,               \* class names of the Egos constructed successfully
    ego_tries,          \* number of Ego constructions attempted
    ego,                \* the Ego object in use (None before any)
    listener,           \* the OpenAL listener's properties
    ego_error,          \* what the last Ego call raised
    \* ---- SpecVehicle: one Vehicle
    veh,                \* the Vehicle object
    veh_error,          \* what the last call on veh raised
    veh_last            \* the last call on veh ("disable (idle)": a
                        \* disable() that found no source to release)

sndVars == <<snd, others, last_error, req_gain, rt, pre>>
simVars == <<ego_vehID, ego_position, silent_ego, vehicles, max_vehicle_count,
             raised, step>>
alVars == <<al_sources, al_limit>>
curveVars == <<rc_curve, rc_x, rc_y>>
bufVars == <<buffers, loads, made>>
egoVars == <<ego_declared, egos, ego_tries, ego, listener, ego_error>>
vehVars == <<veh, veh_error, veh_last>>
setupVars == <<curveVars, bufVars, egoVars, vehVars>>
vars == <<al_sources, al_limit, snd, others, last_error, req_gain, rt, pre,
          ego_vehID, ego_position, silent_ego, vehicles, max_vehicle_count,
          raised, step, rc_curve, rc_x, rc_y, buffers, loads, made,
          ego_declared, egos, ego_tries, ego, listener, ego_error,
          veh, veh_error, veh_last>>

None == <<>>
Some(x) == <<x>>

Origin == <<0, 0, 0>>
Points == {<<x, 0, 0>> : x \in 0..MaxCoord}

\* e bound to a name in Body and evaluated once (a LET name or an operator
\* argument is evaluated again at every use)
With(e, Body(_)) == CHOOSE res \in {Body(v) : v \in {e}} : TRUE

\* ------------------------------------------------------------ Sounds.py
\* Source(buffer): a freshly generated backend source (OpenAL defaults: gain
\* 1.0, i.e. 4 quarters, at the origin, at rest, not playing)
NewSource == [looping |-> FALSE, gain |-> 4,
              position |-> Origin, velocity |-> Origin, playing |-> FALSE]

\* VehicleSound.__init__ with enabled=False
VehicleSound(base_gain, relative_position, looping, random_pos) ==
    [base_gain |-> base_gain, relative_position |-> relative_position,
     looping |-> looping, random_pos |-> random_pos,
     source |-> None, enabled |-> FALSE, playing |-> FALSE,
     position |-> Origin, velocity |-> Origin]

\* VehicleSound.play
VSPlay(s) ==
    IF s.enabled
    THEN [s EXCEPT !.playing = TRUE, !.source[1].playing = TRUE]
    ELSE [s EXCEPT !.playing = TRUE]

\* VehicleSound.pause
VSPause(s) ==
    IF s.enabled
    THEN [s EXCEPT !.playing = FALSE, !.source[1].playing = FALSE]
    ELSE [s EXCEPT !.playing = FALSE]

\* VehicleSound.set_gain: nothing is stored on the object itself
VSSetGain(s, gain) ==
    IF s.enabled
    THEN [s EXCEPT !.source[1].gain = s.base_gain * gain]
    ELSE s

\* VehicleSound.set_position
VSSetPosition(s, position) ==
    IF s.enabled
    THEN [s EXCEPT !.position = position, !.source[1].position = position]
    ELSE [s EXCEPT !.position = position]

\* VehicleSound.set_velocity
VSSetVelocity(s, velocity) ==
    IF s.enabled
    THEN [s EXCEPT !.velocity = velocity, !.source[1].velocity = velocity]
    ELSE [s EXCEPT !.velocity = velocity]

\* the tail of enable() that skips set_position
ReapplyCached_NoPosition(s) ==
    With(VSSetVelocity(s, s.velocity), LAMBDA s3 :
        IF s3.playing THEN VSPlay(s3) ELSE s3)

\* the tail of VehicleSound.enable: the cached position, velocity and play
\* state go to the source just acquired
ReapplyCached(s) ==
    With(VSSetPosition(s, s.position), LAMBDA s2 :
    With(VSSetVelocity(s2, s2.velocity), LAMBDA s3 :
        IF s3.playing THEN VSPlay(s3) ELSE s3))

\* a refused enable() that had already raised the enabled flag
EnableRefused_FlagFirst(s) == [s EXCEPT !.enabled = TRUE]

\* the VehicleSound after Source() raised al.ALError in enable(): the
\* exception leaves the method before anything is assigned
EnableRefused(s) == s

\* VehicleSound.enable with `live` sources in a backend that holds `limit`.
\* Source() raises al.ALError when the backend cannot generate another
\* source.  A source the sound already held is overwritten without being
\* destroyed.  The random start offset moves the playback position, which
\* then advances with time and is not part of the state.
VSEnable(s, live, limit) ==
    IF live >= limit
    THEN [snd |-> EnableRefused(s), live |-> live, err |-> TRUE]
    ELSE With([s EXCEPT !.source = Some([NewSource EXCEPT !.looping = s.looping]),
                        !.enabled = TRUE],
              LAMBDA s1 : [snd |-> ReapplyCached(s1), live |-> live + 1, err |-> FALSE])

\* VehicleSound.disable
VSDisable(s, live) ==
    [snd |-> [s EXCEPT !.source = None, !.enabled = FALSE],
     live |-> IF s.source # None THEN live - 1 ELSE live]

\* ----------------------------------------------------------- Vehicle.py
\* an evaluation whose upper clip returns the first point's output
CalculateResponseFromCurve_ClipToFirst(curve, x) ==
    IF x <= curve[1][1] THEN curve[1][2]
    ELSE IF x >= curve[Len(curve)][1] THEN curve[1][2]
    ELSE LET i  == CHOOSE j \in 1..(Len(curve) - 1) :
                       /\ x >= curve[j][1]
                       /\ \A k \in 1..(j - 1) : ~(x >= curve[k][1])
             x0 == curve[i][1]
             y0 == curve[i][2]
             x1 == curve[i + 1][1]
             y1 == curve[i + 1][2]
         IN  y0 + ((x - x0) * (y1 - y0)) \div (x1 - x0)

\* Vehicle._calculate_response_from_curve: the loop returns at the first
\* index i with x >= curve[i][0]; the division is exact on the values used
CalculateResponseFromCurve(curve, x) ==
    IF x <= curve[1][1] THEN curve[1][2]
    ELSE IF x >= curve[Len(curve)][1] THEN curve[Len(curve)][2]
    ELSE LET i  == CHOOSE j \in 1..(Len(curve) - 1) :
                       /\ x >= curve[j][1]
                       /\ \A k \in 1..(j - 1) : ~(x >= curve[k][1])
             x0 == curve[i][1]
             y0 == curve[i][2]
             x1 == curve[i + 1][1]
             y1 == curve[i + 1][2]
         IN  y0 + ((x - x0) * (y1 - y0)) \div (x1 - x0)

\* Vehicle.__init__ followed by the subclass's add_sound calls: the sounds,
\* signals and response curves of PassengerVehicle, ElectricVehicle and
\* Bicycle (curve points <<input, output>> in halves)
Vehicle(id, class) ==
    LET engine == VehicleSound(1, Origin, TRUE, TRUE)
        tire2  == VehicleSound(4, Origin, TRUE, TRUE)
        tire1  == VehicleSound(2, Origin, TRUE, TRUE)
        ride   == VehicleSound(1, Origin, TRUE, TRUE)
        accel  == << <<0, 1>>, <<5, 2>> >>
        roll   == << <<0, 0>>, <<56, 2>> >>
        pedal  == << <<0, 0>>, <<12, 2>> >>
    IN  [id |-> id, position |-> Origin, angle |-> 0, speed |-> 0,
         acceleration |-> 0, enabled |-> FALSE,
         sounds |-> CASE class = "PassengerVehicle" -> <<engine, tire2>>
                      [] class = "ElectricVehicle" -> <<tire1>>
                      [] class = "Bicycle" -> <<ride>>,
         signals |-> CASE class = "PassengerVehicle" -> <<Some("acceleration"), Some("speed")>>
                       [] class = "ElectricVehicle" -> <<Some("speed")>>
                       [] class = "Bicycle" -> <<Some("speed")>>,
         response_curves |-> CASE class = "PassengerVehicle" -> <<Some(accel), Some(roll)>>
                               [] class = "ElectricVehicle" -> <<Some(roll)>>
                               [] class = "Bicycle" -> <<Some(pedal)>>]

\* Vehicle.__init__: no sounds yet (update_sounds has nothing to do)
VehicleInit(id) ==
    [id |-> id, position |-> Origin, angle |-> 0, speed |-> 0,
     acceleration |-> 0, enabled |-> FALSE,
     sounds |-> <<>>, signals |-> <<>>, response_curves |-> <<>>]

\* add_sound that appends the triple before it looks at its arguments
AddSound_AppendFirst(v, vehicle_sound, signal, response_curve) ==
    IF signal # None /\ response_curve = None
    THEN [veh |-> [v EXCEPT !.sounds = Append(@, vehicle_sound),
                            !.signals = Append(@, signal),
                            !.response_curves = Append(@, response_curve)],
          err |-> "TypeError"]
    ELSE [veh |-> [v EXCEPT !.sounds = Append(@, vehicle_sound),
                            !.signals = Append(@, signal),
                            !.response_curves = Append(@, response_curve)],
          err |-> "none"]

\* Vehicle.add_sound: signal is None or Some(name), response_curve None or
\* Some(point list); only a signal without a curve is refused
AddSound(v, vehicle_sound, signal, response_curve) ==
    IF signal # None /\ response_curve = None
    THEN [veh |-> v, err |-> "TypeError"]
    ELSE [veh |-> [v EXCEPT !.sounds = Append(@, vehicle_sound),
                            !.signals = Append(@, signal),
                            !.response_curves = Append(@, response_curve)],
          err |-> "none"]

\* the names self.__getattribute__ resolves, among the signals used here
HasAttribute(signal) == signal \in {"speed", "acceleration"}

\* self.__getattribute__(signal) for the signals the stock classes name
SignalValue(v, signal) ==
    CASE signal = "speed" -> v.speed
      [] signal = "acceleration" -> v.acceleration

\* a conversion that leaves out the quarter turn
GeometricAngle_NoQuarterTurn(angle) == (360 - angle) % 360

\* ((360 - angle + 90) % 360): the compass heading (clockwise from north) as
\* a geometric angle (counterclockwise from east), in degrees
GeometricAngle(angle) == (360 - angle + 90) % 360

\* math.cos and math.sin of a whole number of quarter turns, in degrees, in
\* exact arithmetic (the floating-point results are within 2e-16 of these:
\* math.cos(math.pi / 2) is 6.1e-17)
CosDeg(a) == CASE a = 0 -> 1 [] a = 90 -> 0 [] a = 180 -> -1 [] a = 270 -> 0
SinDeg(a) == CASE a = 0 -> 0 [] a = 90 -> 1 [] a = 180 -> 0 [] a = 270 -> -1

\* Vehicle.get_velocity_vector
GetVelocityVector(v) ==
    LET geometric_angle == GeometricAngle(v.angle)
    IN  <<v.speed * CosDeg(geometric_angle), v.speed * SinDeg(geometric_angle), 0>>

\* what the body of update_sounds' loop raises for sound i: ValueError for
\* a signal that is no attribute, else whatever the evaluation raises on a
\* missing curve (None[0]) or an empty one (curve[0])
TripleError(v, i) ==
    IF v.signals[i] = None THEN "none"
    ELSE IF ~HasAttribute(v.signals[i][1]) THEN "ValueError"
    ELSE IF v.response_curves[i] = None THEN "TypeError"
    ELSE IF Len(v.response_curves[i][1]) = 0 THEN "IndexError"
    ELSE "none"

\* an update_sounds that swallows what its loop raises
UpdateSoundsRaises_Swallow(v) == "none"

\* what Vehicle.update_sounds raises: the error of the first sound, in list
\* order, whose turn raises one
UpdateSoundsRaises(v) ==
    LET bad == {k \in 1..Len(v.sounds) : TripleError(v, k) # "none"}
    IN  IF bad = {} THEN "none"
        ELSE TripleError(v, CHOOSE k \in bad : \A j \in bad : k <= j)

\* a loop body that moves a sound without a signal along with the Vehicle
UpdateSound_EverySound(v, i) ==
    IF v.signals[i] = None
    THEN With(VSSetPosition(v.sounds[i],
                            <<v.sounds[i].relative_position[1] + v.position[1],
                              v.sounds[i].relative_position[2] + v.position[2],
                              v.sounds[i].relative_position[3] + v.position[3]>>),
              LAMBDA s2 : VSSetVelocity(s2, GetVelocityVector(v)))
    ELSE With(CalculateResponseFromCurve(v.response_curves[i][1],
                                         SignalValue(v, v.signals[i][1])),
              LAMBDA gain :
         With(VSSetGain(v.sounds[i], gain), LAMBDA s1 :
         With(VSSetPosition(s1, <<s1.relative_position[1] + v.position[1],
                                  s1.relative_position[2] + v.position[2],
                                  s1.relative_position[3] + v.position[3]>>),
              LAMBDA s2 : VSSetVelocity(s2, GetVelocityVector(v)))))

\* the body of update_sounds' loop for sound i, when it raises nothing
UpdateSound(v, i) ==
    IF v.signals[i] = None THEN v.sounds[i]
    ELSE With(CalculateResponseFromCurve(v.response_curves[i][1],
                                         SignalValue(v, v.signals[i][1])),
              LAMBDA gain :
         With(VSSetGain(v.sounds[i], gain), LAMBDA s1 :
         With(VSSetPosition(s1, <<s1.relative_position[1] + v.position[1],
                                  s1.relative_position[2] + v.position[2],
                                  s1.relative_position[3] + v.position[3]>>),
              LAMBDA s2 : VSSetVelocity(s2, GetVelocityVector(v)))))

\* the loop of Vehicle.update_sounds from sound i on; it ends at the first
\* sound whose turn raises
RECURSIVE UpdateSoundsFrom(_, _)
UpdateSoundsFrom(v, i) ==
    IF i > Len(v.sounds) THEN v
    ELSE IF TripleError(v, i) # "none" THEN v
    ELSE With([v EXCEPT !.sounds[i] = UpdateSound(v, i)],
              LAMBDA v1 : UpdateSoundsFrom(v1, i + 1))

\* Vehicle.update_sounds: the Vehicle it leaves (see UpdateSoundsRaises for
\* what it raises)
UpdateSounds(v) == UpdateSoundsFrom(v, 1)

\* the loop of Vehicle.enable from sound k on: enable() then play() on each
\* sound; an al.ALError leaves the loop at the sound that raised it
RECURSIVE EnableSounds(_, _, _, _)
EnableSounds(sounds, k, live, limit) ==
    IF k > Len(sounds) THEN [sounds |-> sounds, live |-> live, err |-> FALSE]
    ELSE With(VSEnable(sounds[k], live, limit), LAMBDA r :
             IF r.err
             THEN [sounds |-> [sounds EXCEPT ![k] = r.snd], live |-> r.live,
                   err |-> TRUE]
             ELSE With([sounds EXCEPT ![k] = VSPlay(r.snd)], LAMBDA sounds1 :
                      EnableSounds(sounds1, k + 1, r.live, limit)))

\* Vehicle.enable: the flag is raised before any sound is enabled; err says
\* that a sound's enable() raised al.ALError, exc names whatever was raised
VehicleEnable(v, live, limit) ==
    With(UpdateSounds([v EXCEPT !.enabled = TRUE]), LAMBDA v1 :
        IF UpdateSoundsRaises(v1) # "none"
        THEN [veh |-> v1, live |-> live, err |-> FALSE, exc |-> UpdateSoundsRaises(v1)]
        ELSE With(EnableSounds(v1.sounds, 1, live, limit), LAMBDA r :
                 [veh |-> [v1 EXCEPT !.sounds = r.sounds], live |-> r.live,
                  err |-> r.err, exc |-> IF r.err THEN "ALError" ELSE "none"]))

\* the loop of Vehicle.disable from sound k on: pause() then disable()
RECURSIVE DisableSounds(_, _, _)
DisableSounds(sounds, k, live) ==
    IF k > Len(sounds) THEN [sounds |-> sounds, live |-> live]
    ELSE With(VSPause(sounds[k]), LAMBDA s1 :
         With(VSDisable(s1, live), LAMBDA r :
         With([sounds EXCEPT ![k] = r.snd], LAMBDA sounds1 :
             DisableSounds(sounds1, k + 1, r.live))))

\* a disable() that clears the flag and leaves the sounds alone
VehicleDisable_KeepSounds(v, live) ==
    [veh |-> [v EXCEPT !.enabled = FALSE], live |-> live]

\* Vehicle.disable
VehicleDisable(v, live) ==
    With(DisableSounds(v.sounds, 1, live), LAMBDA r :
        [veh |-> [v EXCEPT !.enabled = FALSE, !.sounds = r.sounds], live |-> r.live])

\* Vehicle.update with the subscription result (speed in halves of a m/s)
VehicleUpdate(v, position, angle, speed) ==
    With([v EXCEPT !.position = position, !.angle = angle, !.speed = speed],
         LAMBDA v1 : UpdateSounds(v1))

\* -------------------------------------------------------- Simulation.py
IDs == 1..NumVeh

\* traci.vehicle.getVehicleClass: the vClass SUMO declares for an identity
\* (the last identity is a pedestrian, the others cycle through three classes)
VClass(id) ==
    IF id = NumVeh THEN "pedestrian"
    ELSE CASE id % 3 = 1 -> "passenger"
           [] id % 3 = 2 -> "evehicle"
           [] id % 3 = 0 -> "bicycle"

\* DEFAULT_VEHICLE_CLASS_MAP on the classes the feed declares
VehicleClassMap(vClass) ==
    CASE vClass = "passenger" -> Some("PassengerVehicle")
      [] vClass = "evehicle" -> Some("ElectricVehicle")
      [] vClass = "bicycle" -> Some("Bicycle")
      [] vClass = "pedestrian" -> None

\* what the telemetry feed can report in a step: for each identity either
\* nothing (it is not in the simulation) or its position (heading north, at
\* the speed FeedSpeed gives); where a pedestrian stands is never read
Feeds == {f \in [IDs -> {None} \cup {Some(p) : p \in Points}] :
             f[NumVeh] \in {None, Some(Origin)}}

\* the speed the feed reports with a position, in halves of a m/s: a
\* vehicle at the origin stands, one at x moves at 14 x m/s
FeedSpeed(position) == 28 * position[1]

\* traci.vehicle.getIDList(): the identities present, in ascending order
RECURSIVE IDList(_, _)
IDList(feed, id) ==
    IF id > NumVeh THEN <<>>
    ELSE IF feed[id] # None THEN <<id>> \o IDList(feed, id + 1)
    ELSE IDList(feed, id + 1)

\* the identities of the roster
RosterIDs(vehs) == {vehs[k].id : k \in 1..Len(vehs)}

\* the backend sources a Vehicle's sounds hold
Held(v) == Cardinality({k \in 1..Len(v.sounds) : v.sounds[k].source # None})

\* EgoVehicle.update for an ego that was constructed before its vehicle
\* entered the simulation (subscribed stays False); Ego.update does nothing
EgoUpdate(vehID, position, feed) ==
    IF vehID # None /\ feed[vehID[1]] # None THEN feed[vehID[1]][1] ELSE position

\* Simulation.add_vehicle on the state w of a running update()
AddVehicle(w, vehID, enabled, limit) ==
    With(VehicleClassMap(VClass(vehID)), LAMBDA class :
        IF class = None THEN w
        ELSE With(Vehicle(vehID, class[1]), LAMBDA v :
             With(IF enabled THEN VehicleEnable(v, w.live, limit)
                  ELSE [veh |-> v, live |-> w.live, err |-> FALSE, exc |-> "none"],
                  LAMBDA r :
                 IF r.err
                 THEN [w EXCEPT !.live = r.live, !.raised = "ALError",
                                !.gens = @ + (r.live - w.live)]
                 ELSE [w EXCEPT !.live = r.live,
                                !.vehicles = Append(@, r.veh),
                                !.born_on = IF r.veh.enabled \/ Held(r.veh) > 0
                                            THEN @ + 1 ELSE @,
                                !.gens = @ + (r.live - w.live)])))

\* the test that skips the ego's vehicle while ignoring silent_ego
IsSilentEgo_Always(silent, egoID, vehID) ==
    egoID # None /\ Some(vehID) = egoID

\* self.silent_ego and hasattr(self.ego, "vehID") and vehID == self.ego.vehID
IsSilentEgo(silent, egoID, vehID) ==
    silent /\ egoID # None /\ Some(vehID) = egoID

\* the first loop of update(), from the k-th listed identity on: find newly
\* added vehicles
RECURSIVE AddNew(_, _, _, _, _, _)
AddNew(w, vehicle_list, k, silent, egoID, limit) ==
    IF k > Len(vehicle_list) \/ w.raised # "none" THEN w
    ELSE IF IsSilentEgo(silent, egoID, vehicle_list[k])
         THEN AddNew(w, vehicle_list, k + 1, silent, egoID, limit)
         ELSE IF vehicle_list[k] \notin RosterIDs(w.vehicles)
         THEN With(AddVehicle(w, vehicle_list[k], FALSE, limit), LAMBDA w1 :
                  AddNew(w1, vehicle_list, k + 1, silent, egoID, limit))
         ELSE AddNew(w, vehicle_list, k + 1, silent, egoID, limit)

\* the second loop of update(), from the roster's k-th Vehicle on: update
\* the vehicles still present
RECURSIVE UpdatePresent(_, _, _)
UpdatePresent(w, feed, k) ==
    IF k > Len(w.vehicles) THEN w
    ELSE IF feed[w.vehicles[k].id] = None THEN UpdatePresent(w, feed, k + 1)
    ELSE With(feed[w.vehicles[k].id][1], LAMBDA position :
         With([w EXCEPT !.vehicles[k] = VehicleUpdate(@, position, 0, FeedSpeed(position))],
              LAMBDA w1 : UpdatePresent(w1, feed, k + 1)))

\* remove_vehicle that deletes the roster's k-th Vehicle without disabling it
RemoveVehicle_NoDisable(w, k) ==
    [w EXCEPT !.vehicles = SubSeq(@, 1, k - 1) \o SubSeq(@, k + 1, Len(@))]

\* Simulation.remove_vehicle of the roster's k-th Vehicle
RemoveVehicle(w, k) ==
    With(VehicleDisable(w.vehicles[k], w.live), LAMBDA r :
        [w EXCEPT !.live = r.live,
                  !.vehicles = SubSeq(@, 1, k - 1) \o SubSeq(@, k + 1, Len(@)),
                  !.released = @ + (w.live - r.live),
                  !.late = @ \/ (w.live > r.live /\ w.gens > 0)])

\* the third loop of update(), from the roster's k-th Vehicle on: remove the
\* vehicles that left the simulation
RECURSIVE RemoveLeft(_, _, _)
RemoveLeft(w, feed, k) ==
    IF k > Len(w.vehicles) THEN w
    ELSE IF feed[w.vehicles[k].id] = None
         THEN With(RemoveVehicle(w, k), LAMBDA w1 : RemoveLeft(w1, feed, k))
         ELSE RemoveLeft(w, feed, k + 1)

\* the sort key: ((x - ex)**2 + (y - ey)**2)**0.5 orders as its square does
Distance2(v, e) ==
    (v.position[1] - e[1]) * (v.position[1] - e[1])
        + (v.position[2] - e[2]) * (v.position[2] - e[2])

\* roster index k put into the sorted index list `order` behind every index
\* that is not farther from e (a stable insertion)
RECURSIVE InsertSorted(_, _, _, _, _)
InsertSorted(vehs, e, order, k, at) ==
    IF at > Len(order) \/ Distance2(vehs[order[at]], e) > Distance2(vehs[k], e)
    THEN SubSeq(order, 1, at - 1) \o <<k>> \o SubSeq(order, at, Len(order))
    ELSE InsertSorted(vehs, e, order, k, at + 1)

\* vehs_sorted, as roster indices, of the roster's first n Vehicles: sorted()
\* is stable, so equal distances keep the roster's order
RECURSIVE VehsSortedTo(_, _, _)
VehsSortedTo(vehs, e, n) ==
    IF n = 0 THEN <<>>
    ELSE With(VehsSortedTo(vehs, e, n - 1), LAMBDA order :
             InsertSorted(vehs, e, order, n, 1))

\* vehs_sorted, as roster indices
VehsSorted(vehs, e) == VehsSortedTo(vehs, e, Len(vehs))

\* a ceiling set one above the failing rank
LoweredCeiling_Above(i) == i + 1

\* the ceiling recorded when veh.enable() fails at 0-based rank i
LoweredCeiling(i) == i - 1

\* a failure that is not caught: the exception leaves update()
OnALError_Propagate(w, i) == [w EXCEPT !.raised = "ALError"]

\* except al.ALError: lower the ceiling and warn
OnALError(w, i) ==
    [w EXCEPT !.max_vehicle_count = Some(LoweredCeiling(i)), !.warned = @ + 1]

\* a try whose handler warns and leaves the ceiling where it was
TryEnable_KeepCeiling(w, k, i, limit) ==
    With(VehicleEnable(w.vehicles[k], w.live, limit), LAMBDA r :
    With([w EXCEPT !.vehicles[k] = r.veh, !.live = r.live,
                   !.gens = @ + (r.live - w.live)],
         LAMBDA w1 :
        IF r.err
        THEN [w1 EXCEPT !.failed = Some(i), !.warned = @ + 1]
        ELSE IF r.exc # "none" THEN [w1 EXCEPT !.raised = r.exc]
        ELSE w1))

\* try: veh.enable() on the roster's k-th Vehicle, ranked i
TryEnable(w, k, i, limit) ==
    With(VehicleEnable(w.vehicles[k], w.live, limit), LAMBDA r :
    With([w EXCEPT !.vehicles[k] = r.veh, !.live = r.live,
                   !.gens = @ + (r.live - w.live)],
         LAMBDA w1 :
        IF r.err
        THEN With([w1 EXCEPT !.failed = Some(i)], LAMBDA w2 : OnALError(w2, i))
        ELSE IF r.exc # "none" THEN [w1 EXCEPT !.raised = r.exc]
        ELSE w1))

\* a loop body that never disables a Vehicle ranked beyond the ceiling
AdmitOne_NoDisable(w, k, i, limit) ==
    IF w.max_vehicle_count = None \/ i <= w.max_vehicle_count[1]
    THEN IF ~w.vehicles[k].enabled THEN TryEnable(w, k, i, limit) ELSE w
    ELSE w

\* the body of the admission loop for rank i (0-based), roster index k
AdmitOne(w, k, i, limit) ==
    IF w.max_vehicle_count = None \/ i <= w.max_vehicle_count[1]
    THEN IF ~w.vehicles[k].enabled THEN TryEnable(w, k, i, limit) ELSE w
    ELSE IF w.vehicles[k].enabled
         THEN With(VehicleDisable(w.vehicles[k], w.live), LAMBDA r :
                  [w EXCEPT !.vehicles[k] = r.veh, !.live = r.live])
         ELSE w

\* the admission loop of update(): for i, veh in enumerate(vehs_sorted)
RECURSIVE Admit(_, _, _, _)
Admit(w, order, i, limit) ==
    IF i >= Len(order) \/ w.raised # "none" THEN w
    ELSE With(AdmitOne(w, order[i + 1], i, limit), LAMBDA w1 :
         With([w1 EXCEPT !.visited = @ + 1], LAMBDA w2 :
             Admit(w2, order, i + 1, limit)))

\* Simulation.update on the feed's report, from the state
\* [vehicles, live, max_vehicle_count] with the ego already updated
SimUpdate(vehs, live, mvc, ego_pos, silent, egoID, feed, limit) ==
    With(IDList(feed, 1), LAMBDA vehicle_list :
    With([vehicles |-> vehs, live |-> live, max_vehicle_count |-> mvc,
          raised |-> "none",
          ids |-> {vehicle_list[k] : k \in 1..Len(vehicle_list)},
          born_on |-> 0, released |-> 0, gens |-> 0, late |-> FALSE,
          visited |-> 0, failed |-> None, warned |-> 0], LAMBDA w0 :
    With(AddNew(w0, vehicle_list, 1, silent, egoID, limit), LAMBDA w1 :
    With(UpdatePresent(w1, feed, 1), LAMBDA w2 :
    With(RemoveLeft(w2, feed, 1), LAMBDA w3 :
    With(VehsSorted(w3.vehicles, ego_pos), LAMBDA order :
        Admit(w3, order, 0, limit)))))))

\* --------------------------------------------------------------- Ego.py
\* the attributes Ego.__init__ and EgoVehicle.__init__ assign; a plain Ego
\* has no vehID, and the fields only an EgoVehicle has stay at their defaults
EgoObject(class, listener_offset) ==
    [class |-> class,
     vehID |-> IF class = "EgoVehicle" THEN Some(1) ELSE None,
     position |-> Origin, velocity |-> Origin,
     orientation |-> <<0, 0, 0, 0, 0, 0>>,
     listener_offset |-> listener_offset,
     angle |-> 0, speed |-> 0, subscribed |-> FALSE]

\* a constructor that does not look at _ego_declared
EgoInit_NoCheck(declared, class, listener_offset) ==
    [err |-> "none", ego |-> Some(EgoObject(class, listener_offset)), declared |-> TRUE]

\* Ego.__init__ (first in EgoVehicle.__init__, through super().__init__()):
\* raises UserWarning when an Ego was declared before, else takes the
\* listener's handle and declares itself
EgoInit(declared, class, listener_offset) ==
    IF declared
    THEN [err |-> "UserWarning", ego |-> None, declared |-> declared]
    ELSE [err |-> "none", ego |-> Some(EgoObject(class, listener_offset)),
          declared |-> TRUE]

\* Ego.set_angle's argument to set_orientation
AngleOrientation(angle) ==
    <<CosDeg(GeometricAngle(angle)), SinDeg(GeometricAngle(angle)), 0, 0, 0, 0>>

\* EgoVehicle.get_orientation_vector
GetOrientationVector(e) ==
    <<CosDeg(GeometricAngle(e.angle)), SinDeg(GeometricAngle(e.angle)), 0>>

\* EgoVehicle.get_velocity_vector
EgoGetVelocityVector(e) ==
    With(GetOrientationVector(e), LAMBDA o :
        <<e.speed * o[1], e.speed * o[2], e.speed * o[3]>>)

\* EgoVehicle._set_listener_properties
SetListenerProperties(e, l) ==
    [l EXCEPT !.position = <<e.position[1] + e.listener_offset[1],
                            e.position[2] + e.listener_offset[2],
                            e.position[3] + e.listener_offset[3]>>,
              !.velocity = EgoGetVelocityVector(e),
              !.orientation = GetOrientationVector(e) \o <<0, 0, 0>>]

\* ------------------------------------- before anything is constructed
\* the sound files of the stock vehicle classes
Files == {"rally-car-idle-loop-17.wav", "car-atspeed-loop.wav", "bicycle-ride.wav"}

\* oalGetListener() before any call on it (OpenAL defaults: at the origin,
\* at rest, looking along -z with +y up, gain 1.0 in quarters)
NewListener == [position |-> Origin, velocity |-> Origin,
                orientation |-> <<0, 0, -1, 0, 1, 0>>, gain |-> 4]

\* no curve is being evaluated
CurveIdle ==
    /\ rc_curve = <<>>
    /\ rc_x = 0
    /\ rc_y = None

\* _buffers = dict(): no VehicleSound was constructed
BuffersIdle ==
    /\ buffers = [f \in Files |-> None]
    /\ loads = [f \in Files |-> 0]
    /\ made = <<>>

\* _ego_declared = False: no Ego was constructed
EgoIdle ==
    /\ ego_declared = FALSE
    /\ egos = <<>>
    /\ ego_tries = 0
    /\ ego = None
    /\ listener = NewListener
    /\ ego_error = "none"

\* no Vehicle is being configured
VehicleIdle ==
    /\ veh = None
    /\ veh_error = "none"
    /\ veh_last = "none"

\* ------------------------------------------------- SpecSound: the calls
\* what a caller can observe of a VehicleSound and of the source it holds
Snapshot(s) ==
    [position |-> s.position, velocity |-> s.velocity, playing |-> s.playing,
     src_position |-> s.source[1].position, src_velocity |-> s.source[1].velocity,
     src_playing |-> s.source[1].playing]

\* the record of a step before any update() has run:
\*   ids      the identities traci.vehicle.getIDList() returned
\*   born_on  Vehicles add_vehicle constructed enabled or holding a source
\*   released backend sources remove_vehicle gave back
\*   gens     backend sources generated
\*   late     a source was generated before remove_vehicle gave one back
\*   visited  iterations of the admission loop that ran
\*   failed   the 0-based rank at which veh.enable() raised (None if none did)
\*   warned   the RuntimeWarnings this step emitted
\*   was_set  whether max_vehicle_count was set when the step began
NoStep == [ids |-> {}, born_on |-> 0, released |-> 0, gens |-> 0,
           late |-> FALSE, visited |-> 0, failed |-> None, warned |-> 0,
           was_set |-> FALSE]

\* the Simulation is not running under SpecSound
SimIdle ==
    /\ ego_vehID = None
    /\ ego_position = Origin
    /\ silent_ego = TRUE
    /\ vehicles = <<>>
    /\ max_vehicle_count = None
    /\ raised = "none"
    /\ step = NoStep

\* a VehicleSound as the stock vehicle classes construct it (looping, random
\* start unless told otherwise, as for the siren) or a one-shot sound
InitSound ==
    /\ \E bg \in {1, 2, 4}, k \in {<<TRUE, TRUE>>, <<TRUE, FALSE>>, <<FALSE, FALSE>>} :
          snd = VehicleSound(bg, Origin, k[1], k[2])
    /\ al_limit \in 1..MaxPool
    /\ al_sources = 0
    /\ others = 0
    /\ last_error = "none"
    /\ req_gain = None
    /\ rt = "none"
    /\ pre = None
    /\ SimIdle
    /\ CurveIdle /\ BuffersIdle /\ EgoIdle /\ VehicleIdle

\* snd.enable()
SndEnable ==
    \E r \in {VSEnable(snd, al_sources, al_limit)} :
        /\ snd' = r.snd
        /\ al_sources' = r.live
        /\ last_error' = IF r.err THEN "ALError" ELSE "none"
        /\ rt' = IF rt = "disabled" /\ ~r.err THEN "restored" ELSE "none"
        /\ pre' = IF rt = "disabled" /\ ~r.err THEN pre ELSE None
        /\ UNCHANGED <<al_limit, others, req_gain>>
        /\ UNCHANGED <<simVars, setupVars>>

\* snd.disable()
SndDisable ==
    \E r \in {VSDisable(snd, al_sources)} :
        /\ snd' = r.snd
        /\ al_sources' = r.live
        /\ last_error' = "none"
        /\ rt' = IF snd.enabled THEN "disabled" ELSE "none"
        /\ pre' = IF snd.enabled THEN Some(Snapshot(snd)) ELSE None
        /\ UNCHANGED <<al_limit, others, req_gain>>
        /\ UNCHANGED <<simVars, setupVars>>

\* a call that is neither half of a round trip
SndCall(s) ==
    /\ snd' = s
    /\ last_error' = "none"
    /\ rt' = "none"
    /\ pre' = None
    /\ UNCHANGED <<al_sources, al_limit, others>>
    /\ UNCHANGED <<simVars, setupVars>>

\* snd.play()
SndPlay == SndCall(VSPlay(snd)) /\ UNCHANGED req_gain

\* snd.pause()
SndPause == SndCall(VSPause(snd)) /\ UNCHANGED req_gain

\* snd.set_gain(g)
SndSetGain(g) == SndCall(VSSetGain(snd, g)) /\ req_gain' = Some(g)

\* snd.set_position(p)
SndSetPosition(p) == SndCall(VSSetPosition(snd, p)) /\ UNCHANGED req_gain

\* snd.set_velocity(v)
SndSetVelocity(v) == SndCall(VSSetVelocity(snd, v)) /\ UNCHANGED req_gain

\* another VehicleSound of the process takes a source from the pool
OtherEnable ==
    /\ al_sources < al_limit
    /\ al_sources' = al_sources + 1
    /\ others' = others + 1
    /\ rt' = "none"
    /\ pre' = None
    /\ UNCHANGED <<snd, al_limit, last_error, req_gain>>
    /\ UNCHANGED <<simVars, setupVars>>

\* another VehicleSound of the process returns its source
OtherDisable ==
    /\ others > 0
    /\ al_sources' = al_sources - 1
    /\ others' = others - 1
    /\ rt' = "none"
    /\ pre' = None
    /\ UNCHANGED <<snd, al_limit, last_error, req_gain>>
    /\ UNCHANGED <<simVars, setupVars>>

NextSound ==
    \/ SndEnable
    \/ SndDisable
    \/ SndPlay
    \/ SndPause
    \/ \E g \in 0..MaxGain : SndSetGain(g)
    \/ \E p \in Points : SndSetPosition(p)
    \/ \E v \in Points : SndSetVelocity(v)
    \/ OtherEnable
    \/ OtherDisable

SpecSound == InitSound /\ [][NextSound]_vars

\* ------------------------------------------------- Spec: the Simulation
\* no VehicleSound is driven by hand under Spec
SoundIdle ==
    /\ snd = VehicleSound(2, Origin, TRUE, TRUE)
    /\ others = 0
    /\ last_error = "none"
    /\ req_gain = None
    /\ rt = "none"
    /\ pre = None

\* Ego() put somewhere by set_position, or EgoVehicle(vehID) constructed
\* before any vehicle is in the simulation, then
\* Simulation(ego, silent_ego=..., max_vehicle_count=...)
Init ==
    /\ ego_vehID \in {None, Some(1)}
    /\ ego_position \in Points
    /\ ego_vehID # None => ego_position = Origin
    /\ silent_ego \in BOOLEAN
    /\ ego_vehID = None => silent_ego
    /\ vehicles = <<>>
    /\ max_vehicle_count \in {None, Some(MaxCount)}
    /\ raised = "none"
    /\ step = NoStep
    /\ al_limit \in 0..MaxPool
    /\ al_sources = 0
    /\ SoundIdle
    /\ CurveIdle /\ BuffersIdle /\ EgoIdle /\ VehicleIdle

\* Simulation.update() while the feed reports `feed`
Update(feed) ==
    \E e \in {EgoUpdate(ego_vehID, ego_position, feed)} :
    \E w \in {SimUpdate(vehicles, al_sources, max_vehicle_count,
                        e, silent_ego, ego_vehID, feed, al_limit)} :
        /\ ego_position' = e
        /\ vehicles' = w.vehicles
        /\ al_sources' = w.live
        /\ max_vehicle_count' = w.max_vehicle_count
        /\ raised' = w.raised
        /\ step' = [ids |-> w.ids, born_on |-> w.born_on,
                    released |-> w.released, gens |-> w.gens, late |-> w.late,
                    visited |-> w.visited, failed |-> w.failed,
                    warned |-> w.warned,
                    was_set |-> max_vehicle_count # None]
        /\ UNCHANGED <<ego_vehID, silent_ego, al_limit>>
        /\ UNCHANGED <<sndVars, setupVars>>

Next == \E feed \in Feeds : Update(feed)

Spec == Init /\ [][Next]_vars

\* ---------------------------------------- SpecCurve: one curve evaluation
\* control points: inputs 0..MaxX, outputs even so that every division the
\* evaluation makes is exact; the unit of either axis is free (the curve
\* [(0, 0.5), (2.5, 1)] is <<0, 2>>, <<2, 4>> with inputs in units of 1.25
\* and outputs in quarters)
CurvePoints == {<<px, py>> : px \in 0..MaxX, py \in {0, 2, 4}}

\* point lists of 1..MaxPts points with strictly increasing inputs, one or
\* two units apart
Curves ==
    UNION {{c \in [1..n -> CurvePoints] :
               \A k \in 1..(n - 1) : c[k + 1][1] - c[k][1] \in {1, 2}} : n \in 1..MaxPts}

\* the signal values: below, inside and above every curve's domain
SignalValues == (0 - 1)..(MaxX + 1)

InitCurve ==
    /\ rc_curve \in Curves
    /\ rc_x \in SignalValues
    /\ rc_y = None
    /\ al_sources = 0
    /\ al_limit = 0
    /\ SoundIdle
    /\ SimIdle
    /\ BuffersIdle /\ EgoIdle /\ VehicleIdle

\* Vehicle._calculate_response_from_curve(curve, x)
Evaluate ==
    /\ rc_y = None
    /\ rc_y' = Some(CalculateResponseFromCurve(rc_curve, rc_x))
    /\ UNCHANGED <<rc_curve, rc_x, bufVars, egoVars, vehVars>>
    /\ UNCHANGED <<alVars, sndVars, simVars>>

NextCurve == Evaluate

SpecCurve == InitCurve /\ [][NextCurve]_vars

\* ------------------------------------------------- claims on Simulation
\* the roster Vehicles whose enabled flag is set
EnabledSet == {k \in 1..Len(vehicles) : vehicles[k].enabled}

\* the roster Vehicles all of whose sounds hold a backend source
HostedSet == {k \in 1..Len(vehicles) : Held(vehicles[k]) = Len(vehicles[k].sounds)}

\* the backend sources the roster holds
RECURSIVE HeldFrom(_, _)
HeldFrom(vehs, k) == IF k > Len(vehs) THEN 0 ELSE Held(vehs[k]) + HeldFrom(vehs, k + 1)

\* the identities update() is to keep: those the feed lists whose class has
\* a profile, without the silent ego's own
Expected ==
    {id \in step.ids : /\ VehicleClassMap(VClass(id)) # None
                       /\ ~(silent_ego /\ ego_vehID = Some(id))}

\* the first n roster indices in ascending distance from the ego, ties in
\* roster order
Nearest(n) ==
    With(VehsSorted(vehicles, ego_position), LAMBDA order :
        {order[r] : r \in 1..(IF n < Len(order) THEN n ELSE Len(order))})

\* C1: whenever max_vehicle_count is set, the number of enabled roster
\* Vehicles does not exceed it.
C1_CapacityInvariant ==
    max_vehicle_count # None => Cardinality(EnabledSet) <= max_vehicle_count[1]

\* C2: after an update() in which no enable failed, with capacity c set, the
\* enabled Vehicles are exactly the min(c, n) nearest to the ego.
C2_NearestSet ==
    (max_vehicle_count # None /\ step.failed = None)
        => EnabledSet = Nearest(max_vehicle_count[1])

\* C3: an update() that starts with the capacity unset and in which the
\* backend refuses a source ends with exactly the hosted emitters enabled,
\* the ceiling equal to their number and one warning emitted.
C3_Degradation ==
    [][ (max_vehicle_count = None /\ step'.failed # None)
        => ( /\ Cardinality(EnabledSet') = Cardinality(HostedSet')
             /\ max_vehicle_count' = Some(Cardinality(HostedSet'))
             /\ step'.warned = 1 ) ]_vars

\* C4: once set, max_vehicle_count is never unset or raised by update(),
\* and every degradation (a step that warns) strictly lowers it.
C4_OneDirectional ==
    [][ max_vehicle_count # None
        => ( /\ max_vehicle_count' # None
             /\ max_vehicle_count'[1] <= max_vehicle_count[1]
             /\ step'.failed # None => max_vehicle_count'[1] < max_vehicle_count[1] ) ]_vars

C4_Witness ==
    /\ step.was_set
    /\ step.failed # None
    /\ max_vehicle_count # None
    /\ max_vehicle_count[1] < MaxCount

\* C5: update() never raises the backend's error: a refused enable lowers the
\* ceiling to one below the failing rank, emits one warning, and the loop
\* still visits every ranked Vehicle and leaves the roster as reconciled.
C5_FailureContained ==
    /\ raised = "none"
    /\ step.visited = Len(vehicles)
    /\ step.failed # None =>
          /\ step.warned = 1
          /\ max_vehicle_count = Some(step.failed[1] - 1)
          /\ RosterIDs(vehicles) = Expected

C5_Witness ==
    /\ step.failed # None
    /\ step.failed[1] + 1 < Len(vehicles)
    /\ raised = "none"

\* C6: after update() the roster holds exactly the identities the feed lists
\* whose class has a profile, without the silent ego's own, each once, and
\* no Vehicle was constructed enabled.
C6_Reconciled ==
    /\ RosterIDs(vehicles) = Expected
    /\ Cardinality(RosterIDs(vehicles)) = Len(vehicles)
    /\ step.born_on = 0

C6_Witness ==
    /\ Len(vehicles) >= 2
    /\ \E id \in step.ids : VehicleClassMap(VClass(id)) = None
    /\ silent_ego /\ ego_vehID # None /\ ego_vehID[1] \in step.ids

\* C7: a Vehicle whose identity the feed no longer lists is off the roster
\* after update(), its sources were given back before the step generated
\* any, and every live backend source is held by a roster Vehicle.
C7_DepartureReleases ==
    [][ /\ \A k \in 1..Len(vehicles) :
              vehicles[k].id \notin step'.ids
                  => vehicles[k].id \notin RosterIDs(vehicles')
        /\ ~step'.late
        /\ al_sources' = HeldFrom(vehicles', 1) ]_vars

C7_Witness ==
    /\ step.released > 0
    /\ step.gens > 0
    /\ ~step.late
    /\ Len(vehicles) > 0

\* the gain and position update_sounds is to have put on the backend
\* source of sound i of Vehicle v
SourceSynced(v, i) ==
    /\ v.sounds[i].source[1].gain
          = v.sounds[i].base_gain
              * CalculateResponseFromCurve(v.response_curves[i][1],
                                           SignalValue(v, v.signals[i][1]))
    /\ v.sounds[i].source[1].position
          = <<v.sounds[i].relative_position[1] + v.position[1],
              v.sounds[i].relative_position[2] + v.position[2],
              v.sounds[i].relative_position[3] + v.position[3]>>

\* C12: after update(), every backend source of a signal-bearing sound of an
\* enabled Vehicle carries the gain base_gain * curve(signal) and the
\* position relative_position + Vehicle position, also in the step that
\* enabled the Vehicle.
C12_GainAtEndOfStep ==
    \A k \in EnabledSet :
        \A i \in 1..Len(vehicles[k].sounds) :
            (vehicles[k].signals[i] # None /\ vehicles[k].sounds[i].source # None)
                => SourceSynced(vehicles[k], i)

\* vehs_sorted of the step just run, as roster indices
Ranking == VehsSorted(vehicles, ego_position)

\* C22: after update() no Vehicle whose enabled flag is down is ranked
\* ahead of one whose flag is up.
C22_EnabledPrefix ==
    \E order \in {Ranking} :
        \A a, b \in 1..Len(order) :
            (a < b /\ vehicles[order[b]].enabled) => vehicles[order[a]].enabled

\* a step in which an enable failed left three ranked Vehicles, some
\* flagged enabled and some not
C22_Witness ==
    /\ step.failed # None
    /\ Len(vehicles) = 3
    /\ EnabledSet # {}
    /\ EnabledSet # 1..Len(vehicles)

\* C23: a roster Vehicle's enabled flag is up exactly when every one of its
\* sounds is enabled and holds a backend source.
C23_FlagConsistency ==
    \A k \in 1..Len(vehicles) :
        vehicles[k].enabled <=>
            \A i \in 1..Len(vehicles[k].sounds) :
                /\ vehicles[k].sounds[i].enabled
                /\ vehicles[k].sounds[i].source # None

\* the backend sources the n first-ranked Vehicles of vehs need
RECURSIVE SourcesNeeded(_, _, _)
SourcesNeeded(vehs, order, n) ==
    IF n <= 0 THEN 0
    ELSE IF n > Len(order) THEN SourcesNeeded(vehs, order, Len(order))
    ELSE Len(vehs[order[n]].sounds) + SourcesNeeded(vehs, order, n - 1)

\* the Vehicles the admission loop admits under ceiling c: every rank when
\* c is unset, else the 0-based ranks up to and including c
Admitted(order, c) == IF c = None THEN Len(order) ELSE c[1] + 1

\* C24: an update() whose backend pool can hold the sources of every
\* Vehicle the ceiling admits in the step's ranking emits no warning and
\* leaves max_vehicle_count as it was.
C24_NoSpuriousDegradation ==
    [][(\E order \in {Ranking'} :
           SourcesNeeded(vehicles', order, Admitted(order, max_vehicle_count))
               <= al_limit)
       => /\ step'.warned = 0
          /\ max_vehicle_count' = max_vehicle_count]_vars

\* C26: an update() warns at most once; when an enable failed at a rank,
\* the ceiling was lowered once, to one below that rank, and no Vehicle
\* ranked behind it is enabled or holds a source at the end of the step.
C26_OneDegradationPerStep ==
    /\ step.warned <= 1
    /\ step.failed = None => step.warned = 0
    /\ step.failed # None =>
          /\ step.warned = 1
          /\ max_vehicle_count = Some(LoweredCeiling(step.failed[1]))
          /\ \E order \in {Ranking} :
                \A r \in (step.failed[1] + 2)..Len(order) :
                    /\ ~vehicles[order[r]].enabled
                    /\ Held(vehicles[order[r]]) = 0

\* an enable failed at the first rank of three in a backend that still had
\* a free source for a Vehicle ranked behind it
C26_Witness ==
    /\ step.failed = Some(0)
    /\ step.warned = 1
    /\ Len(vehicles) = 3
    /\ al_sources < al_limit

\* ------------------------------------------------ claims on VehicleSound
\* C8: disable() followed at once by enable() on an enabled VehicleSound
\* always finds a free source and leaves the cached position, velocity and
\* playing flag, and the ones applied to the new backend source, as they were
\* before disable().
C8_RoundTrip ==
    /\ rt = "disabled" => al_sources < al_limit
    /\ rt = "restored" => snd.enabled /\ Snapshot(snd) = pre[1]

C8_Witness ==
    /\ rt = "restored"
    /\ snd.playing
    /\ snd.source[1].position # Origin
    /\ snd.source[1].velocity # Origin

\* C9: an enabled VehicleSound's backend source carries the last position,
\* velocity, play state and gain (base_gain * g) given to the setters, also
\* when they were given while the sound was disabled.
C9_SettersCarried ==
    snd.enabled =>
        /\ snd.source[1].position = snd.position
        /\ snd.source[1].velocity = snd.velocity
        /\ snd.source[1].playing = snd.playing
        /\ req_gain # None => snd.source[1].gain = snd.base_gain * req_gain[1]

\* C10: enable() on a disabled VehicleSound while the backend pool is
\* exhausted raises the backend error and changes neither the sound (still
\* disabled, no source, same cached state) nor the pool.
C10_EnableFailsCleanly ==
    [][ ( /\ SndEnable
          /\ ~snd.enabled
          /\ al_sources >= al_limit )
        => ( /\ last_error' = "ALError"
             /\ snd' = snd
             /\ ~snd'.enabled
             /\ snd'.source = None
             /\ al_sources' = al_sources ) ]_vars

C10_Witness ==
    /\ last_error = "ALError"
    /\ ~snd.enabled
    /\ snd.source = None
    /\ snd.playing
    /\ snd.position # Origin
    /\ snd.velocity # Origin

\* ------------------------------------ SpecBuffers: the buffer cache
\* how many buffers were loaded so far, over the files in fs
RECURSIVE TotalLoads(_, _)
TotalLoads(lds, fs) ==
    IF fs = {} THEN 0
    ELSE LET f == CHOOSE g \in fs : TRUE
         IN  lds[f] + TotalLoads(lds, fs \ {f})

\* Buffer(WaveFile(file)): the backend generates a buffer under a fresh id
FreshBuffer(lds) == TotalLoads(lds, Files) + 1

\* a constructor that loads the file whether or not the cache holds it
LoadBuffer_Always(bufs, lds, file) ==
    [buffers |-> [bufs EXCEPT ![file] = Some(FreshBuffer(lds))],
     loads |-> [lds EXCEPT ![file] = @ + 1]]

\* if self.file not in _buffers: _buffers[self.file] = Buffer(WaveFile(...))
LoadBuffer(bufs, lds, file) ==
    IF bufs[file] = None
    THEN [buffers |-> [bufs EXCEPT ![file] = Some(FreshBuffer(lds))],
          loads |-> [lds EXCEPT ![file] = @ + 1]]
    ELSE [buffers |-> bufs, loads |-> lds]

InitBuffers ==
    /\ BuffersIdle
    /\ al_sources = 0
    /\ al_limit = 0
    /\ SoundIdle
    /\ SimIdle
    /\ CurveIdle /\ EgoIdle /\ VehicleIdle

\* VehicleSound(file): the buffer is taken from the cache, loaded first if
\* the cache does not hold the file; self.buffer_id is its id, and enable()
\* later builds its source from _buffers[self.file]
Construct(file) ==
    /\ Len(made) < MaxSounds
    /\ \E r \in {LoadBuffer(buffers, loads, file)} :
          /\ buffers' = r.buffers
          /\ loads' = r.loads
          /\ made' = Append(made, [file |-> file, buffer_id |-> r.buffers[file][1]])
    /\ UNCHANGED <<curveVars, egoVars, vehVars>>
    /\ UNCHANGED <<alVars, sndVars, simVars>>

NextBuffers == \E file \in Files : Construct(file)

SpecBuffers == InitBuffers /\ [][NextBuffers]_vars

\* ---------------------------------------------- SpecEgo: the listener
\* compass headings a whole number of quarter turns from north
Headings == {0, 90, 180, 270}

\* what the subscription reports of the ego's vehicle: nothing while it is
\* not in the simulation, else its position, heading and speed
EgoReports ==
    {None} \cup {Some([position |-> p, angle |-> a, speed |-> s]) :
                     p \in Points, a \in Headings, s \in 0..1}

InitEgo ==
    /\ EgoIdle
    /\ al_sources = 0
    /\ al_limit = 0
    /\ SoundIdle
    /\ SimIdle
    /\ CurveIdle /\ BuffersIdle /\ VehicleIdle

\* Ego() or EgoVehicle(vehID, listener_offset=(0, 0, 1)), the vehicle not
\* being in the simulation yet
EgoConstruct(class) ==
    /\ ego_tries < MaxEgos
    /\ ego_tries' = ego_tries + 1
    /\ \E r \in {EgoInit(ego_declared, class,
                          IF class = "EgoVehicle" THEN <<0, 0, 1>> ELSE Origin)} :
          /\ ego_error' = r.err
          /\ ego_declared' = r.declared
          /\ ego' = IF r.err = "none" THEN r.ego ELSE ego
          /\ egos' = IF r.err = "none" THEN Append(egos, class) ELSE egos
    /\ UNCHANGED listener
    /\ UNCHANGED <<curveVars, bufVars, vehVars>>
    /\ UNCHANGED <<alVars, sndVars, simVars>>

\* a call on the Ego in use that leaves e as the object and l as the
\* listener's properties
EgoCall(e, l) ==
    /\ ego' = Some(e)
    /\ listener' = l
    /\ ego_error' = "none"
    /\ UNCHANGED <<ego_declared, egos, ego_tries>>
    /\ UNCHANGED <<curveVars, bufVars, vehVars>>
    /\ UNCHANGED <<alVars, sndVars, simVars>>

\* ego.set_position(p)
EgoSetPosition(p) ==
    /\ ego # None
    /\ EgoCall([ego[1] EXCEPT !.position = p], [listener EXCEPT !.position = p])

\* ego.set_velocity(v)
EgoSetVelocity(v) ==
    /\ ego # None
    /\ EgoCall([ego[1] EXCEPT !.velocity = v], [listener EXCEPT !.velocity = v])

\* ego.set_angle(angle), through set_orientation
EgoSetAngle(angle) ==
    /\ ego # None
    /\ EgoCall([ego[1] EXCEPT !.orientation = AngleOrientation(angle)],
               [listener EXCEPT !.orientation = AngleOrientation(angle)])

\* ego.set_master_volume(gain), gain in halves
EgoSetMasterVolume(gain) ==
    /\ ego # None
    /\ EgoCall(ego[1], [listener EXCEPT !.gain = 2 * gain])

\* EgoVehicle.update(): returns at once while the vehicle is not in the
\* simulation, else takes the reported position, heading and speed and
\* sets the listener's properties from them
EgoVehicleUpdate(report) ==
    /\ ego # None
    /\ ego[1].class = "EgoVehicle"
    /\ IF report = None
       THEN EgoCall(ego[1], listener)
       ELSE \E e \in {[ego[1] EXCEPT !.position = report[1].position,
                                     !.angle = report[1].angle,
                                     !.speed = report[1].speed]} :
               EgoCall(e, SetListenerProperties(e, listener))

NextEgo ==
    \/ \E class \in {"Ego", "EgoVehicle"} : EgoConstruct(class)
    \/ \E p \in Points : EgoSetPosition(p)
    \/ \E v \in Points : EgoSetVelocity(v)
    \/ \E angle \in Headings : EgoSetAngle(angle)
    \/ \E gain \in 0..MaxGain : EgoSetMasterVolume(gain)
    \/ \E report \in EgoReports : EgoVehicleUpdate(report)

SpecEgo == InitEgo /\ [][NextEgo]_vars

\* -------------------------------------------- SpecVehicle: one Vehicle
\* the signal names passed to add_sound: none, two attributes of a Vehicle
\* and a name no Vehicle has
SignalArgs == {None, Some("speed"), Some("acceleration"), Some("rpm")}

\* the response curves passed to add_sound: none, an empty point list, a
\* single point, and two points (inputs and outputs in halves)
CurveArgs == {None, Some(<<>>), Some(<< <<0, 2>> >>), Some(<< <<0, 0>>, <<2, 2>> >>)}

\* the speeds a subscription reports, in halves of a m/s
Speeds == {0, 1, 4}

\* Vehicle(id) before any add_sound
InitVehicle ==
    /\ veh = VehicleInit(1)
    /\ veh_error = "none"
    /\ veh_last = "none"
    /\ al_sources = 0
    /\ al_limit \in 0..MaxPool
    /\ SoundIdle
    /\ SimIdle
    /\ CurveIdle /\ BuffersIdle /\ EgoIdle

\* veh.add_sound(VehicleSound(file), signal, response_curve)
VehAddSound(signal, response_curve) ==
    /\ Len(veh.sounds) < MaxTriples
    /\ \E r \in {AddSound(veh, VehicleSound(2, Origin, TRUE, TRUE), signal, response_curve)} :
          /\ veh' = r.veh
          /\ veh_error' = r.err
    /\ veh_last' = "add_sound"
    /\ UNCHANGED <<curveVars, bufVars, egoVars>>
    /\ UNCHANGED <<alVars, sndVars, simVars>>

\* veh.update() on a subscription result
VehUpdate(position, angle, speed) ==
    /\ veh' = VehicleUpdate(veh, position, angle, speed)
    /\ veh_error' = UpdateSoundsRaises(veh)
    /\ veh_last' = "update"
    /\ UNCHANGED <<curveVars, bufVars, egoVars>>
    /\ UNCHANGED <<alVars, sndVars, simVars>>

\* veh.enable()
VehEnable ==
    /\ \E r \in {VehicleEnable(veh, al_sources, al_limit)} :
          /\ veh' = r.veh
          /\ al_sources' = r.live
          /\ veh_error' = r.exc
    /\ veh_last' = "enable"
    /\ UNCHANGED <<curveVars, bufVars, egoVars>>
    /\ UNCHANGED <<al_limit, sndVars, simVars>>

\* veh.disable()
VehDisable ==
    /\ \E r \in {VehicleDisable(veh, al_sources)} :
          /\ veh' = r.veh
          /\ al_sources' = r.live
    /\ veh_error' = "none"
    /\ veh_last' = IF Held(veh) > 0 THEN "disable" ELSE "disable (idle)"
    /\ UNCHANGED <<curveVars, bufVars, egoVars>>
    /\ UNCHANGED <<al_limit, sndVars, simVars>>

NextVehicle ==
    \/ \E signal \in SignalArgs, response_curve \in CurveArgs :
           VehAddSound(signal, response_curve)
    \/ \E position \in Points, angle \in {0, 90}, speed \in Speeds :
           VehUpdate(position, angle, speed)
    \/ VehEnable
    \/ VehDisable

SpecVehicle == InitVehicle /\ [][NextVehicle]_vars

\* ------------------------------------------- claims on response curves
\* the linear interpolation on the segment of `c` that brackets v
\* (c[i] input <= v < c[i+1] input), for v inside the domain
Interpolated(c, v) ==
    LET i == CHOOSE j \in 1..(Len(c) - 1) : c[j][1] <= v /\ v < c[j + 1][1]
    IN  c[i][2] + ((v - c[i][1]) * (c[i + 1][2] - c[i][2])) \div (c[i + 1][1] - c[i][1])

\* C13: for a curve of two or more points and x strictly inside its domain
\* the evaluation returns the linear interpolation on the bracketing segment.
C13_Interpolation ==
    ( /\ rc_y # None
      /\ Len(rc_curve) >= 2
      /\ rc_curve[1][1] < rc_x
      /\ rc_x < rc_curve[Len(rc_curve)][1] )
        => rc_y[1] = Interpolated(rc_curve, rc_x)

\* C14: the evaluation returns the first point's output for x at or below
\* the first input and the last point's output for x at or above the last.
C14_Clamping ==
    rc_y # None =>
        /\ rc_x <= rc_curve[1][1] => rc_y[1] = rc_curve[1][2]
        /\ rc_x >= rc_curve[Len(rc_curve)][1] => rc_y[1] = rc_curve[Len(rc_curve)][2]

C14_Witness ==
    /\ rc_y # None
    /\ Len(rc_curve) = 3
    /\ rc_x > rc_curve[3][1]
    /\ rc_y[1] = rc_curve[3][2]
    /\ rc_curve[3][2] # rc_curve[1][2]
    /\ rc_curve[3][2] # rc_curve[2][2]

\* C25: the backend's live sources are exactly those of the enabled
\* VehicleSounds (this one and the others of the process), and this sound
\* is enabled exactly when it holds a source.
C25_NoSourceLeak ==
    /\ al_sources = others + (IF snd.enabled THEN 1 ELSE 0)
    /\ snd.enabled <=> snd.source # None

\* ------------------------------------------------- claims on a Vehicle
\* sound i of v is enabled, holds a backend source and plays
Sounding(v, i) ==
    /\ v.sounds[i].enabled
    /\ v.sounds[i].playing
    /\ v.sounds[i].source # None
    /\ v.sounds[i].source[1].playing

\* sound i of v is disabled, holds no backend source and does not play
Silent(v, i) ==
    /\ ~v.sounds[i].enabled
    /\ ~v.sounds[i].playing
    /\ v.sounds[i].source = None

\* C11: after an enable() that raised nothing every sound of the Vehicle
\* is enabled and playing on a backend source; after disable() every sound
\* is disabled, without a source and not playing, and the Vehicle still has
\* the same sounds, signals and response curves.
C11_EmitterCascade ==
    [][/\ (veh_last' = "enable" /\ veh_error' = "none") =>
             /\ veh'.enabled
             /\ \A i \in 1..Len(veh'.sounds) : Sounding(veh', i)
       /\ (veh_last' \in {"disable", "disable (idle)"}) =>
             /\ ~veh'.enabled
             /\ \A i \in 1..Len(veh'.sounds) : Silent(veh', i)
             /\ al_sources' = al_sources - Held(veh)
             /\ Len(veh'.sounds) = Len(veh.sounds)
             /\ \A i \in 1..Len(veh.sounds) :
                   /\ veh'.sounds[i].base_gain = veh.sounds[i].base_gain
                   /\ veh'.sounds[i].relative_position = veh.sounds[i].relative_position
                   /\ veh'.sounds[i].looping = veh.sounds[i].looping
             /\ veh'.signals = veh.signals
             /\ veh'.response_curves = veh.response_curves]_vars

\* a Vehicle with several sounds was disabled while its sounds held sources
C11_Witness ==
    /\ veh # None
    /\ veh_last = "disable"
    /\ Len(veh.sounds) >= 2
    /\ \A i \in 1..Len(veh.sounds) : Silent(veh, i)
    /\ al_sources = 0

\* C15: every response curve registered with a signal has at least two
\* points (a point list with fewer is refused by add_sound and so never
\* reaches an evaluation).
C15_DegenerateRejected ==
    veh # None =>
        \A i \in 1..Len(veh.sounds) :
            (veh.signals[i] # None /\ veh.response_curves[i] # None)
                => Len(veh.response_curves[i][1]) >= 2

\* C16: add_sound with a signal and no response curve raises and leaves
\* sounds, signals and response_curves as they were; the three lists always
\* have the same length, and every entry with a signal has a curve.
C16_AddSoundChecked ==
    [][/\ \A signal \in SignalArgs \ {None} :
             VehAddSound(signal, None) => (veh_error' = "TypeError" /\ veh' = veh)
       /\ veh' # None =>
             /\ Len(veh'.signals) = Len(veh'.sounds)
             /\ Len(veh'.response_curves) = Len(veh'.sounds)
             /\ \A i \in 1..Len(veh'.signals) :
                   veh'.signals[i] # None => veh'.response_curves[i] # None]_vars

\* add_sound was refused on a Vehicle that already has a sound
C16_Witness ==
    /\ veh # None
    /\ veh_last = "add_sound"
    /\ veh_error = "TypeError"
    /\ Len(veh.sounds) >= 1

\* the first sound of v, in list order, whose signal names no attribute,
\* or 0 when every signal resolves
FirstUnresolved(v) ==
    LET bad == {k \in 1..Len(v.sounds) :
                   v.signals[k] # None /\ ~HasAttribute(v.signals[k][1])}
    IN  IF bad = {} THEN 0 ELSE CHOOSE k \in bad : \A j \in bad : k <= j

\* C19: an update() of a Vehicle whose first unresolved signal is on sound
\* j (no earlier sound raising anything) raises ValueError; the sounds
\* before j that have a signal have received the new position and velocity
\* (and gain, when they hold a source), the sounds from j on are untouched.
C19_FailFastOnSignal ==
    [][(/\ veh_last' = "update"
        /\ FirstUnresolved(veh) > 0
        /\ \A i \in 1..(FirstUnresolved(veh) - 1) : TripleError(veh, i) = "none")
       => /\ veh_error' = "ValueError"
          /\ \A i \in 1..(FirstUnresolved(veh) - 1) :
                veh.signals[i] # None =>
                  /\ veh'.sounds[i].position = veh'.position
                  /\ veh'.sounds[i].velocity = GetVelocityVector(veh')
                  /\ veh'.sounds[i].source # None => SourceSynced(veh', i)
          /\ \A i \in FirstUnresolved(veh)..Len(veh.sounds) :
                veh'.sounds[i] = veh.sounds[i]]_vars

\* an update() raised ValueError on the second sound after it had moved the
\* first sound and before it touched the second
C19_Witness ==
    /\ veh # None
    /\ veh_last = "update"
    /\ veh_error = "ValueError"
    /\ Len(veh.sounds) = 2
    /\ FirstUnresolved(veh) = 2
    /\ veh.position # Origin
    /\ veh.signals[1] # None
    /\ veh.sounds[1].source # None
    /\ veh.sounds[1].position = veh.position
    /\ veh.sounds[2].position = Origin

\* C21: a sound registered without a signal is left alone by update() and
\* by the update_sounds() inside enable(): update() changes nothing of it,
\* its cached position and velocity stay at their initial value wherever the
\* Vehicle moves, and a source it holds stays there at the backend's
\* default gain.
C21_OnlySignalledSounds ==
    [][veh' # None =>
        /\ veh_last' = "update" =>
              \A i \in 1..Len(veh.sounds) :
                  veh.signals[i] = None => veh'.sounds[i] = veh.sounds[i]
        /\ \A i \in 1..Len(veh'.sounds) :
              veh'.signals[i] = None =>
                /\ veh'.sounds[i].position = Origin
                /\ veh'.sounds[i].velocity = Origin
                /\ veh'.sounds[i].source # None =>
                      /\ veh'.sounds[i].source[1].position = Origin
                      /\ veh'.sounds[i].source[1].velocity = Origin
                      /\ veh'.sounds[i].source[1].gain = NewSource.gain]_vars

\* a moving Vehicle away from the origin was updated while its first sound,
\* registered without a signal, was playing on a source, and while a later
\* sound with a signal followed the Vehicle
C21_Witness ==
    /\ veh # None
    /\ veh_last = "update"
    /\ veh_error = "none"
    /\ veh.position # Origin
    /\ veh.speed > 0
    /\ Len(veh.sounds) = 2
    /\ veh.signals[1] = None
    /\ veh.sounds[1].source # None
    /\ veh.sounds[1].source[1].playing
    /\ veh.sounds[1].source[1].position = Origin
    /\ veh.signals[2] # None
    /\ veh.sounds[2].position = veh.position

\* ------------------------------------------ claims on the buffer cache
\* the files the VehicleSounds constructed so far refer to
FilesUsed == {made[i].file : i \in 1..Len(made)}

\* C18: a construction never replaces or removes a cache entry, and after it
\* the cache holds a buffer for exactly the files used, each loaded once,
\* distinct files hold distinct buffers, and every VehicleSound refers to
\* the buffer the cache holds for its file.
C18_SharedBufferCache ==
    [][ /\ \A f \in Files : buffers[f] # None => buffers'[f] = buffers[f]
        /\ \A f \in Files : (buffers'[f] # None) = (f \in FilesUsed')
        /\ \A f \in Files : loads'[f] = (IF f \in FilesUsed' THEN 1 ELSE 0)
        /\ \A f, g \in FilesUsed' : f # g => buffers'[f] # buffers'[g]
        /\ \A i \in 1..Len(made') :
              Some(made'[i].buffer_id) = buffers'[made'[i].file] ]_vars

C18_Witness ==
    /\ Len(made) >= 3
    /\ made[1].file = made[3].file
    /\ made[1].file # made[2].file
    /\ made[1].buffer_id = made[3].buffer_id
    /\ loads[made[1].file] = 1

\* --------------------------------------------------- claims on the Ego
\* C17: once an Ego is declared every further construction raises and
\* leaves the Ego in use and the listener's properties as they were; no
\* more than one Ego is ever constructed.
C17_SingleListener ==
    [][ /\ (ego_declared /\ ego_tries' # ego_tries)
              => ( /\ ego_error' = "UserWarning"
                   /\ ego' = ego
                   /\ listener' = listener
                   /\ egos' = egos )
        /\ Len(egos') <= 1 ]_vars

C17_Witness ==
    /\ ego_error = "UserWarning"
    /\ ego_tries >= 2
    /\ Len(egos) = 1
    /\ listener.position # Origin
    /\ listener.orientation # NewListener.orientation

\* the unit vector of a compass heading: north is +y, east is +x
Direction(heading) ==
    CASE heading = 0 -> <<0, 1, 0>>
      [] heading = 90 -> <<1, 0, 0>>

\* C20: heading 0 has geometric angle 90 and direction (0, 1, 0), heading 90
\* geometric angle 0 and direction (1, 0, 0) (in exact arithmetic), alike in
\* Ego.set_angle, EgoVehicle.get_orientation_vector and
\* Vehicle.get_velocity_vector; set_angle's orientation ends in four zeros.
C20_HeadingConversion ==
    [][ /\ GeometricAngle(0) = 90
        /\ GeometricAngle(90) = 0
        /\ \A h \in {0, 90} :
              /\ EgoSetAngle(h) =>
                    listener'.orientation = Direction(h) \o <<0, 0, 0>>
              /\ (\E p \in Points, s \in 0..1 :
                       EgoVehicleUpdate(Some([position |-> p, angle |-> h, speed |-> s])))
                    => /\ GetOrientationVector(ego'[1]) = Direction(h)
                       /\ listener'.orientation = Direction(h) \o <<0, 0, 0>>
              /\ \A s \in 0..1 :
                    GetVelocityVector([angle |-> h, speed |-> s])
                        = <<s * Direction(h)[1], s * Direction(h)[2], 0>> ]_vars

C20_Witness ==
    /\ ego # None
    /\ ego[1].class = "EgoVehicle"
    /\ ego[1].angle = 90
    /\ ego[1].orientation = <<0, 1, 0, 0, 0, 0>>
    /\ listener.orientation = <<1, 0, 0, 0, 0, 0>>
    /\ listener.velocity = <<1, 0, 0>>

====
